---- MODULE Spec2Model ----
(***************************************************************************)
(* Build-support scripts of MView6:                                        *)
(*   tools/linux/deps.py           shared libraries -> Debian constraints  *)
(*   tools/commands/gen_commands.py  commands.yaml -> commands.rs          *)
(*                                                                         *)
(* Text is modelled as it is in Python: a string is a sequence of          *)
(* one-character strings, so that substring tests, splitting, joining,     *)
(* sorting and the version pattern are computed and not assumed.           *)
(***************************************************************************)
EXTENDS Integers, Sequences, FiniteSets, TLC

VARIABLES
    pc,           \* position of the running script
    argv,         \* sys.argv
    dpkgStatus,   \* the dpkg status database: package -> Version field or NotInstalled
    error,        \* deps.py: the module-level flag
    shared_libs,  \* main: the list returned by get_shared_libraries
    i,            \* main: index of the for loop over shared_libs
    all,          \* main: the merged set of constraints
    lib,          \* get_package_for_library: the argument of the latest call
    output,       \* get_package_for_library: what dpkg -S answered to the latest call
    resolved,     \* the calls of get_package_for_library that returned: lib, packages
    stdout,       \* what was printed, by print statement
    calls,        \* the subprocesses started, in order
    exit_code,    \* the process's exit status, Running until it ends
    error_reads,  \* how often main has tested the flag
    version,      \* get_package_version: its return value when called on its own
    data,         \* gen_commands.py: commands.yaml as loaded, in file order
    keys,         \* gen_commands.py: sorted(data, key=natural_sort_key)
    f             \* gen_commands.py: the Command entries written to commands.rs

vars == <<pc, argv, dpkgStatus, error, shared_libs, i, all, lib, output,
          resolved, stdout, calls, exit_code, error_reads, version, data, keys, f>>

-----------------------------------------------------------------------------
(* Bounds of the model *)

MaxLddLines == 2
MaxVersionLen == 4
MaxCommands == 2

-----------------------------------------------------------------------------
(* Python strings *)

ASCII == <<" ", "!", "\"", "#", "$", "%", "&", "'", "(", ")", "*", "+", ",", "-", ".", "/", "0", "1", "2", "3", "4", "5", "6", "7", "8", "9", ":", ";", "<", "=", ">", "?", "@", "A", "B", "C", "D", "E", "F", "G", "H", "I", "J", "K", "L", "M", "N", "O", "P", "Q", "R", "S", "T", "U", "V", "W", "X", "Y", "Z", "[", "\\", "]", "^", "_", "U+0060", "a", "b", "c", "d", "e", "f", "g", "h", "i", "j", "k", "l", "m", "n", "o", "p", "q", "r", "s", "t", "u", "v", "w", "x", "y", "z", "{", "|", "}", "~">>

ord(c) ==
    IF c = "\t" THEN 9
    ELSE IF c = "\n" THEN 10
    ELSE 31 + (CHOOSE k \in 1..Len(ASCII) : ASCII[k] = c)

isspace(c) == c \in {" ", "\t", "\n"}

isdigit_char(c) == ord(c) >= 48 /\ ord(c) <= 57

StartsAt(s, w, k) ==
    /\ k >= 1
    /\ k + Len(w) - 1 <= Len(s)
    /\ SubSeq(s, k, k + Len(w) - 1) = w

\* s.find(w, from), 1-based, 0 when absent
find(s, w, from) ==
    LET hits == {k \in from..(Len(s) + 1) : StartsAt(s, w, k)}
    IN  IF hits = {} THEN 0 ELSE CHOOSE k \in hits : \A j \in hits : k <= j

\* w in s
Contains(s, w) == \E k \in 1..(Len(s) + 1) : StartsAt(s, w, k)

\* s.endswith(w)
endswith(s, w) == Len(w) <= Len(s) /\ SubSeq(s, Len(s) - Len(w) + 1, Len(s)) = w

RECURSIVE split(_, _)
\* s.split(sep)
split(s, sep) ==
    LET k == find(s, sep, 1)
    IN  IF k = 0 THEN <<s>>
        ELSE <<SubSeq(s, 1, k - 1)>> \o split(SubSeq(s, k + Len(sep), Len(s)), sep)

\* s.splitlines()
splitlines(s) ==
    LET parts == split(s, <<"\n">>)
    IN  IF parts[Len(parts)] = <<>> THEN SubSeq(parts, 1, Len(parts) - 1) ELSE parts

RECURSIVE lstrip(_)
lstrip(s) == IF s # <<>> /\ isspace(s[1]) THEN lstrip(Tail(s)) ELSE s

RECURSIVE rstrip(_)
rstrip(s) ==
    IF s # <<>> /\ isspace(s[Len(s)]) THEN rstrip(SubSeq(s, 1, Len(s) - 1)) ELSE s

\* s.strip()
strip(s) == rstrip(lstrip(s))

RECURSIVE TakeWhileNotSpace(_)
TakeWhileNotSpace(s) ==
    IF s = <<>> \/ isspace(s[1]) THEN <<>> ELSE <<s[1]>> \o TakeWhileNotSpace(Tail(s))

\* s.split()[0]
first_word(s) == TakeWhileNotSpace(lstrip(s))

RECURSIVE join(_, _)
\* sep.join(parts)
join(sep, parts) ==
    IF parts = <<>> THEN <<>>
    ELSE IF Len(parts) = 1 THEN parts[1]
    ELSE parts[1] \o sep \o join(sep, Tail(parts))

RECURSIVE str_lt(_, _)
\* a < b on str: by code point, a proper prefix first
str_lt(a, b) ==
    IF b = <<>> THEN FALSE
    ELSE IF a = <<>> THEN TRUE
    ELSE IF a[1] # b[1] THEN ord(a[1]) < ord(b[1])
    ELSE str_lt(Tail(a), Tail(b))

RECURSIVE sort_desc(_)
sort_desc(S) ==
    IF S = {} THEN <<>>
    ELSE LET m == CHOOSE x \in S : \A y \in S : x = y \/ str_lt(y, x)
         IN  <<m>> \o sort_desc(S \ {m})

RECURSIVE list_sort(_)
\* list(S) followed by .sort()
list_sort(S) ==
    IF S = {} THEN <<>>
    ELSE LET m == CHOOSE x \in S : \A y \in S : x = y \/ str_lt(x, y)
         IN  <<m>> \o list_sort(S \ {m})

-----------------------------------------------------------------------------
(* deps.py: the environment the script runs in *)

Running == -1

NotInstalled == <<"not-installed">>
CalledProcessError == <<"CalledProcessError">>

Libraries == {<<"l", "a", ".", "s", "o">>, <<"l", "b", ".", "s", "o">>}
Packages == {<<"p", "a">>, <<"p", "b">>}

\* One line of ldd for a library that was found.
LddFound(l) == <<"\t">> \o l \o <<" ", "=", ">", " ", "/", "l", "i", "b", "/">> \o l \o <<" ", "(", "0", "x", "1", ")", "\n">>
\* Lines of ldd without the arrow.
LddVdso == <<"\t", "l", "i", "n", "u", "x", "-", "v", "d", "s", "o", ".", "s", "o", ".", "1", " ", "(", "0", "x", "2", ")", "\n">>

LddLinePool == {LddFound(l) : l \in Libraries} \cup {LddVdso}

RECURSIVE Texts(_, _)
\* The concatenations of at most n lines of a pool.
Texts(pool, n) ==
    IF n = 0 THEN {<<>>}
    ELSE LET shorter == Texts(pool, n - 1)
         IN  shorter \cup {t \o l : t \in shorter, l \in pool}

\* What check_output(["ldd", executable]) gives: its stdout, or the exception.
LddResults == Texts(LddLinePool, MaxLddLines) \cup {CalledProcessError}

\* A directory of a vendored or 32-bit copy, one per library.
VendorDir(l) == IF l = <<"l", "a", ".", "s", "o">> THEN <<"/", "o", "p", "t", "/", "c", "o", "d", "i", "u", "m", "/">> ELSE <<"/", "u", "s", "r", "/", "l", "i", "b", "3", "2", "/">>

\* Lines "<package>[:<arch>]: <filepath>" that dpkg -S <l> can print.
OwnedByA(l) == <<"p", "a", ":", "a", "m", "d", "6", "4", ":", " ", "/", "u", "s", "r", "/", "l", "i", "b", "/">> \o l \o <<"\n">>
OwnedByAToo(l) == <<"p", "a", ":", "a", "r", "m", "6", "4", ":", " ", "/", "u", "s", "r", "/", "a", "r", "m", "/">> \o l \o <<"\n">>
OwnedByB(l) == <<"p", "b", ":", " ", "/", "u", "s", "r", "/", "l", "i", "b", "/">> \o l \o <<"\n">>
VendoredByB(l) == <<"p", "b", ":", " ">> \o VendorDir(l) \o l \o <<"\n">>
LongerName(l) == <<"p", "a", ":", " ", "/", "u", "s", "r", "/", "l", "i", "b", "/">> \o l \o <<".", "1", "\n">>

\* What check_output(["dpkg", "-S", l]) gives: its stdout, or the exception.
DpkgSResults(l) ==
    { <<>>,
      OwnedByA(l),
      OwnedByB(l),
      OwnedByA(l) \o OwnedByB(l),
      OwnedByA(l) \o OwnedByAToo(l),
      OwnedByA(l) \o VendoredByB(l),
      VendoredByB(l),
      VendoredByB(l) \o OwnedByB(l) \o VendoredByB(l),
      LongerName(l),
      LongerName(l) \o OwnedByB(l),
      CalledProcessError }

\* Version fields of the status database used with the whole script.
InstalledVersions(p) ==
    IF p = <<"p", "a">> THEN {<<"1", ".", "2", "-", "3">>, <<"0", ".", "0", ".", "0", "-", "1">>} ELSE {<<"2", ".", "0", "+", "b", "1">>}

\* The status databases the whole script is run against.
StatusDatabases ==
    {d \in [Packages -> UNION {InstalledVersions(p) : p \in Packages} \cup {NotInstalled}] :
        \A p \in Packages : d[p] \in InstalledVersions(p) \cup {NotInstalled}}

-----------------------------------------------------------------------------
(* deps.py *)

IGNORE == <<<<"i", "3", "8", "6">>, <<"l", "i", "b", "3", "2">>, <<"g", "o", "o", "g", "l", "e", "-", "c", "h", "r", "o", "m", "e">>, <<"m", "i", "c", "r", "o", "s", "o", "f", "t", "-", "e", "d", "g", "e">>,
            <<"c", "o", "d", "i", "u", "m">>, <<"w", "i", "n", "d", "s", "u", "r", "f">>>>

FALLBACK_without_dav1d == <<<<"l", "i", "b", "c", "a", "i", "r", "o", "2", " ", "(", ">", "=", " ", "1", ".", "1", "8", ".", "0", ")">>,
                            <<"l", "i", "b", "g", "d", "k", "-", "p", "i", "x", "b", "u", "f", "-", "2", ".", "0", "-", "0", " ", "(", ">", "=", " ", "2", ".", "4", "2", ".", "1", "0", ")">>,
                            <<"l", "i", "b", "g", "t", "k", "-", "4", "-", "1", " ", "(", ">", "=", " ", "4", ".", "1", "4", ".", "5", ")">>,
                            <<"l", "i", "b", "p", "a", "n", "g", "o", "-", "1", ".", "0", "-", "0", " ", "(", ">", "=", " ", "1", ".", "5", "2", ".", "1", ")">>>>

FALLBACK == <<<<"l", "i", "b", "c", "a", "i", "r", "o", "2", " ", "(", ">", "=", " ", "1", ".", "1", "8", ".", "0", ")">>,
              <<"l", "i", "b", "d", "a", "v", "1", "d", "7", " ", "(", ">", "=", " ", "1", ".", "4", ".", "1", ")">>,
              <<"l", "i", "b", "g", "d", "k", "-", "p", "i", "x", "b", "u", "f", "-", "2", ".", "0", "-", "0", " ", "(", ">", "=", " ", "2", ".", "4", "2", ".", "1", "0", ")">>,
              <<"l", "i", "b", "g", "t", "k", "-", "4", "-", "1", " ", "(", ">", "=", " ", "4", ".", "1", "4", ".", "5", ")">>,
              <<"l", "i", "b", "p", "a", "n", "g", "o", "-", "1", ".", "0", "-", "0", " ", "(", ">", "=", " ", "1", ".", "5", "2", ".", "1", ")">>>>

\* A print statement's line on standard output; arg holds a printed set.
Printed(stmt, text, arg) == [stmt |-> stmt, text |-> text, arg |-> arg]

\* A subprocess that was run: the command, its argument, its exit status.
Call(cmd, arg, status) == [cmd |-> cmd, arg |-> arg, status |-> status]

\* get_shared_libraries
get_shared_libraries(ldd) ==
    IF ldd = CalledProcessError THEN <<>>
    ELSE LET lines == split(ldd, <<"\n">>)
             kept == SelectSeq(lines, LAMBDA line : line # <<>> /\ Contains(line, <<"=", ">">>))
         IN  [k \in 1..Len(kept) |-> first_word(kept[k])]


\* The status database as dpkg -s prints it; nothing on stdout for an unknown package.
dpkg_s(package) ==
    IF package \notin DOMAIN dpkgStatus \/ dpkgStatus[package] = NotInstalled THEN <<>>
    ELSE <<"P", "a", "c", "k", "a", "g", "e", ":", " ">> \o package \o <<"\n", "V", "e", "r", "s", "i", "o", "n", ":", " ">>
         \o dpkgStatus[package] \o <<"\n">>

NotSign_minus_only(c) == c # "-"

\* the character class [^+-]
NotSign(c) == c \notin {"+", "-"}

RECURSIVE SpaceRun(_, _)
\* how many characters from k on \s* can take
SpaceRun(s, k) == IF k <= Len(s) /\ isspace(s[k]) THEN 1 + SpaceRun(s, k + 1) ELSE 0

RECURSIVE NotSignRun(_, _)
\* how many characters from k on [^+-]+ can take
NotSignRun(s, k) == IF k <= Len(s) /\ NotSign(s[k]) THEN 1 + NotSignRun(s, k + 1) ELSE 0

NoMatch == [start |-> 0, stop |-> 0]

\* Version:\s*\K[^+-]+ with "Version:" at k: \s* is greedy and gives back what
\* [^+-]+ needs; a whitespace character is itself in [^+-].
MatchAt(line, k) ==
    LET j == k + Len(<<"V", "e", "r", "s", "i", "o", "n", ":">>)
        w == SpaceRun(line, j)
        n == NotSignRun(line, j + w)
    IN  IF ~StartsAt(line, <<"V", "e", "r", "s", "i", "o", "n", ":">>, k) THEN NoMatch
        ELSE IF n > 0 THEN [start |-> j + w, stop |-> j + w + n - 1]
        ELSE IF w > 0 /\ NotSign(line[j + w - 1]) THEN [start |-> j + w - 1, stop |-> j + w - 1]
        ELSE NoMatch

RECURSIVE grep_line(_, _)
\* grep -o on one line: every match from position `from` on, leftmost first
grep_line(line, from) ==
    LET hits == {k \in from..Len(line) : MatchAt(line, k) # NoMatch}
    IN  IF hits = {} THEN <<>>
        ELSE LET m == MatchAt(line, CHOOSE k \in hits : \A j \in hits : k <= j)
             IN  <<SubSeq(line, m.start, m.stop)>> \o grep_line(line, m.stop + 1)

RECURSIVE grep_oP(_)
\* grep -oP 'Version:\s*\K[^+-]+' over the lines of its input: the matches, one per line
grep_oP(lines) ==
    IF lines = <<>> THEN <<>>
    ELSE grep_line(Head(lines), 1) \o grep_oP(Tail(lines))

\* what grep leaves: the matches one per line, status 1 when nothing matched
grep_result(found) ==
    [returncode |-> IF found = <<>> THEN 1 ELSE 0,
     stdout |-> IF found = <<>> THEN <<>> ELSE join(<<"\n">>, found) \o <<"\n">>]

\* ... | grep -oP 'Version:\s*\K[^+-]+' on the text piped in
grep_pipeline(text) == grep_result(grep_oP(splitlines(text)))

\* subprocess.run("dpkg -s {package} | grep ...", shell=True, capture_output=True):
\* the pipeline's status is that of grep
run_pipeline(package) == grep_pipeline(dpkg_s(package))

version_not_found_silent(package, st) ==
    [ret |-> <<"0", ".", "0", ".", "0">>,
     error |-> st.error,
     stdout |-> Append(st.stdout,
                       Printed("version_not_found", package \o <<" ", "-", ">", " ", "P", "a", "c", "k", "a", "g", "e", " ", "n", "o", "t", " ", "f", "o", "u", "n", "d">>, {})),
     calls |-> st.calls]

\* get_package_version: the except branch
version_not_found(package, st) ==
    [ret |-> <<"0", ".", "0", ".", "0">>,
     error |-> TRUE,
     stdout |-> Append(st.stdout,
                       Printed("version_not_found", package \o <<" ", "-", ">", " ", "P", "a", "c", "k", "a", "g", "e", " ", "n", "o", "t", " ", "f", "o", "u", "n", "d">>, {})),
     calls |-> st.calls]

\* get_package_version: what follows subprocess.run, whose result is given
version_result(package, st, result) ==
    IF result.returncode = 0
    THEN [ret |-> strip(result.stdout), error |-> st.error, stdout |-> st.stdout,
          calls |-> Append(st.calls, Call("dpkg -s", package, result.returncode))]
    ELSE version_not_found(package,
                           [error |-> st.error, stdout |-> st.stdout,
                            calls |-> Append(st.calls,
                                             Call("dpkg -s", package, result.returncode))])

\* get_package_version, on the process state st = [error, stdout, calls]
get_package_version(package, st) == version_result(package, st, run_pipeline(package))

ignored_i386_only(line) == Contains(line, IGNORE[1])

\* any(word in line for word in IGNORE)
ignored(line) == \E w \in 1..Len(IGNORE) : Contains(line, IGNORE[w])

format_constraint_eq(package, ver) == package \o <<" ", "(", "=", " ">> \o ver \o <<")">>

\* f"{package} (>= {version})"
format_constraint(package, ver) == package \o <<" ", "(", ">", "=", " ">> \o ver \o <<")">>

ambiguous_gt(packages) == Cardinality(packages) > 1

\* len(packages) != 1
ambiguous(packages) == Cardinality(packages) # 1

raise_flag_assign(flag, cond) == cond

\* if cond: error = True
raise_flag(flag, cond) == flag \/ cond

\* packages.add(f"{package} (>= {version})"), v being what get_package_version gave
add_package(acc, package, v) ==
    [packages |-> acc.packages \cup {format_constraint(package, v.ret)},
     error |-> v.error, stdout |-> v.stdout, calls |-> v.calls]

\* the body of the loop in get_package_for_library
for_line(line, l, acc) ==
    IF ignored(line) THEN acc
    ELSE IF endswith(line, <<"/">> \o l)
    THEN add_package(acc, split(line, <<":">>)[1],
                     get_package_version(split(line, <<":">>)[1], acc))
    ELSE acc

RECURSIVE for_lines(_, _, _)
\* get_package_for_library: the loop over output.splitlines()
for_lines(lines, l, acc) ==
    IF lines = <<>> THEN acc
    ELSE for_lines(Tail(lines), l, for_line(Head(lines), l, acc))

\* get_package_for_library after the loop: the test of len(packages) and the return
library_result(l, r) ==
    [ret |-> r.packages,
     error |-> raise_flag(r.error, ambiguous(r.packages)),
     stdout |-> IF ambiguous(r.packages)
                THEN Append(r.stdout, Printed("error", <<"e", "r", "r", "o", "r", " ">> \o l, r.packages))
                ELSE r.stdout,
     calls |-> r.calls]

\* get_package_for_library once dpkg -S has answered `out`
get_package_for_library(l, out, st) ==
    IF out = CalledProcessError
    THEN [ret |-> {},
          error |-> TRUE,
          stdout |-> Append(st.stdout,
                            Printed("library_not_found", l \o <<" ", "-", ">", " ", "P", "a", "c", "k", "a", "g", "e", " ", "n", "o", "t", " ", "f", "o", "u", "n", "d">>, {})),
          calls |-> st.calls]
    ELSE library_result(l, for_lines(splitlines(out), l,
                                     [packages |-> {}, error |-> st.error,
                                      stdout |-> st.stdout, calls |-> st.calls]))

usage_error_lt(args) == Len(args) < 2

\* len(sys.argv) != 2
usage_error(args) == Len(args) # 2

\* if error: sys.exit(2), and 0 when main returns
exit_status(flag) == IF flag THEN 2 ELSE 0

-----------------------------------------------------------------------------
(* deps.py: the steps of main *)

Argvs == { <<<<"d", "e", "p", "s", ".", "p", "y">>>>,
           <<<<"d", "e", "p", "s", ".", "p", "y">>, <<"m", "v", "i", "e", "w", "6">>>>,
           <<<<"d", "e", "p", "s", ".", "p", "y">>, <<"m", "v", "i", "e", "w", "6">>, <<"e", "x", "t", "r", "a">>>> }

Init ==
    /\ pc = "main"
    /\ argv \in Argvs
    /\ dpkgStatus \in StatusDatabases
    /\ error = FALSE
    /\ shared_libs = <<>>
    /\ i = 0
    /\ all = {}
    /\ lib = <<>>
    /\ output = <<>>
    /\ resolved = <<>>
    /\ stdout = <<>>
    /\ calls = <<>>
    /\ exit_code = Running
    /\ error_reads = 0
    /\ version = <<>>
    /\ data = <<>>
    /\ keys = <<>>
    /\ f = <<>>

gen_vars == <<data, keys, f>>

\* main: wrong argument count
main_usage ==
    /\ pc = "main"
    /\ usage_error(argv)
    /\ stdout' = Append(stdout, Printed("usage",
                        <<"U", "s", "a", "g", "e", ":", " ">> \o argv[1] \o <<" ", "<", "p", "a", "t", "h", "_", "t", "o", "_", "e", "x", "e", "c", "u", "t", "a", "b", "l", "e", ">">>, {}))
    /\ exit_code' = 1
    /\ pc' = "exit"
    /\ UNCHANGED <<argv, dpkgStatus, error, shared_libs, i, all, lib, output, resolved,
                   calls, error_reads, version, gen_vars>>

\* main: shared_libs = get_shared_libraries(executable), and the branch on it
main_start ==
    /\ pc = "main"
    /\ ~usage_error(argv)
    /\ \E ldd \in LddResults :
          /\ shared_libs' = get_shared_libraries(ldd)
          /\ calls' = Append(calls, Call("ldd", argv[2],
                                          IF ldd = CalledProcessError THEN 1 ELSE 0))
    /\ pc' = IF shared_libs' # <<>> THEN "for" ELSE "else"
    /\ i' = 1
    /\ all' = {}
    /\ UNCHANGED <<argv, dpkgStatus, error, lib, output, resolved, stdout, exit_code,
                   error_reads, version, gen_vars>>

\* main: no shared library, the fixed list is printed
main_else ==
    /\ pc = "else"
    /\ stdout' = Append(stdout, Printed("fallback", join(<<",", " ">>, FALLBACK), {}))
    /\ exit_code' = 0
    /\ pc' = "exit"
    /\ UNCHANGED <<argv, dpkgStatus, error, shared_libs, i, all, lib, output, resolved,
                   calls, error_reads, version, gen_vars>>

\* get_package_for_library(shared_libs[i]): dpkg -S is run and answers
dpkg_S ==
    /\ pc = "for"
    /\ i <= Len(shared_libs)
    /\ lib' = shared_libs[i]
    /\ output' \in DpkgSResults(shared_libs[i])
    /\ calls' = Append(calls, Call("dpkg -S", shared_libs[i],
                                   IF output' = CalledProcessError THEN 1 ELSE 0))
    /\ pc' = "dpkg -S"
    /\ UNCHANGED <<argv, dpkgStatus, error, shared_libs, i, all, resolved, stdout,
                   exit_code, error_reads, version, gen_vars>>

\* get_package_for_library works on the answer and returns; main merges the result
package_for_library ==
    /\ pc = "dpkg -S"
    /\ \E r \in {get_package_for_library(lib, output,
                                         [error |-> error, stdout |-> stdout, calls |-> calls])} :
           /\ error' = r.error
           /\ stdout' = r.stdout
           /\ calls' = r.calls
           /\ all' = all \cup r.ret
           /\ resolved' = Append(resolved, [lib |-> lib, packages |-> r.ret])
    /\ i' = i + 1
    /\ pc' = "for"
    /\ UNCHANGED <<argv, dpkgStatus, shared_libs, lib, output, exit_code, error_reads,
                   version, gen_vars>>

\* main: after the loop, the flag decides
main_finish ==
    /\ pc = "for"
    /\ i > Len(shared_libs)
    /\ error_reads' = error_reads + 1
    /\ exit_code' = exit_status(error)
    /\ stdout' = IF error THEN stdout
                 ELSE Append(stdout, Printed("constraints", join(<<",", " ">>, list_sort(all)), {}))
    /\ pc' = "exit"
    /\ UNCHANGED <<argv, dpkgStatus, error, shared_libs, i, all, lib, output, resolved,
                   calls, version, gen_vars>>

Next ==
    \/ main_usage
    \/ main_start
    \/ main_else
    \/ dpkg_S
    \/ package_for_library
    \/ main_finish

Spec == Init /\ [][Next]_vars

-----------------------------------------------------------------------------
(* deps.py: get_package_version on its own, for every Version field *)

VersionAlphabet == {"0", ".", "+", "-"}

RECURSIVE Strings(_, _)
\* the strings over an alphabet of length at most n
Strings(alphabet, n) ==
    IF n = 0 THEN {<<>>}
    ELSE LET shorter == Strings(alphabet, n - 1)
         IN  shorter \cup {Append(t, c) : t \in shorter, c \in alphabet}

InitVersion ==
    /\ pc = "get_package_version"
    /\ argv = <<>>
    /\ \E v \in Strings(VersionAlphabet, MaxVersionLen) \cup {NotInstalled} :
          dpkgStatus = [p \in Packages |-> IF p = <<"p", "a">> THEN v ELSE NotInstalled]
    /\ error = FALSE
    /\ shared_libs = <<>>
    /\ i = 0
    /\ all = {}
    /\ lib = <<>>
    /\ output = <<>>
    /\ resolved = <<>>
    /\ stdout = <<>>
    /\ calls = <<>>
    /\ exit_code = Running
    /\ error_reads = 0
    /\ version = <<>>
    /\ data = <<>>
    /\ keys = <<>>
    /\ f = <<>>

\* a call of get_package_version
package_version ==
    /\ pc = "get_package_version"
    /\ \E package \in Packages :
          \E r \in {get_package_version(package,
                                        [error |-> error, stdout |-> stdout, calls |-> calls])} :
              /\ version' = r.ret
              /\ error' = r.error
              /\ stdout' = r.stdout
              /\ calls' = r.calls
    /\ pc' = "returned"
    /\ UNCHANGED <<argv, dpkgStatus, shared_libs, i, all, lib, output, resolved, exit_code,
                   error_reads, gen_vars>>

NextVersion == package_version

SpecVersion == InitVersion /\ [][NextVersion]_vars

-----------------------------------------------------------------------------
(* gen_commands.py *)

RECURSIVE NonDigitRun(_, _)
NonDigitRun(s, k) ==
    IF k <= Len(s) /\ ~isdigit_char(s[k]) THEN 1 + NonDigitRun(s, k + 1) ELSE 0

RECURSIVE DigitRun(_, _)
DigitRun(s, k) ==
    IF k <= Len(s) /\ isdigit_char(s[k]) THEN 1 + DigitRun(s, k + 1) ELSE 0

RECURSIVE re_split_digits(_)
\* re.split(r"(\d+)", s): text, digits, text, ..., text
re_split_digits(s) ==
    LET n == NonDigitRun(s, 1)
        d == DigitRun(s, n + 1)
    IN  IF n = Len(s) THEN <<s>>
        ELSE <<SubSeq(s, 1, n), SubSeq(s, n + 1, n + d)>>
             \o re_split_digits(SubSeq(s, n + d + 1, Len(s)))

\* x.isdigit()
isdigit(x) == x # <<>> /\ \A k \in 1..Len(x) : isdigit_char(x[k])

RECURSIVE int(_)
\* int(x) of a run of digits
int(x) == IF x = <<>> THEN 0 ELSE 10 * int(SubSeq(x, 1, Len(x) - 1)) + (ord(x[Len(x)]) - 48)

RECURSIVE concat(_)
\* "".join(parts)
concat(parts) == IF parts = <<>> THEN <<>> ELSE Head(parts) \o concat(Tail(parts))

\* s[:n] and s[n:]
slice_to(s, n) == SubSeq(s, 1, IF n < Len(s) THEN n ELSE Len(s))
slice_from(s, n) == SubSeq(s, n + 1, Len(s))

natural_sort_key_whole_text(s) ==
    LET a == re_split_digits(s)
        text == concat(SelectSeq(a, LAMBDA x : ~isdigit(x)))
        digits == SelectSeq(a, isdigit)
        n == IF digits # <<>> THEN int(digits[1]) ELSE -1
    IN  <<text, n, <<>>>>

\* natural_sort_key
natural_sort_key(s) ==
    LET a == re_split_digits(s)
        text == concat(SelectSeq(a, LAMBDA x : ~isdigit(x)))
        digits == SelectSeq(a, isdigit)
        n == IF digits # <<>> THEN int(digits[1]) ELSE -1
    IN  <<slice_to(text, 6), n, slice_from(text, 6)>>

\* a < b on the tuples natural_sort_key returns
key_lt(a, b) ==
    \/ str_lt(a[1], b[1])
    \/ a[1] = b[1] /\ a[2] < b[2]
    \/ a[1] = b[1] /\ a[2] = b[2] /\ str_lt(a[3], b[3])

RECURSIVE sorted(_)
\* sorted(names, key=natural_sort_key): stable, equal keys keep their order
sorted(names) ==
    IF names = <<>> THEN <<>>
    ELSE LET before == sorted(SubSeq(names, 1, Len(names) - 1))
             x == names[Len(names)]
             later == {k \in 1..Len(before) :
                          key_lt(natural_sort_key(x), natural_sort_key(before[k]))}
             at == IF later = {} THEN Len(before) + 1
                   ELSE CHOOSE k \in later : \A j \in later : k <= j
         IN  SubSeq(before, 1, at - 1) \o <<x>> \o SubSeq(before, at, Len(before))

NoKey == <<"no-key">>

\* The commands commands.yaml can define: name, and the mapping under it.
CommandPool ==
    { [name |-> <<"x">>, key |-> <<"q">>, command |-> <<"q", "u", "i", "t", "(", ")">>],
      [name |-> <<"x", "2">>, key |-> NoKey, command |-> <<"z", "o", "o", "m", "(", "2", ")">>],
      [name |-> <<"x", "1", "0">>, key |-> <<"z">>, command |-> <<"z", "o", "o", "m", "(", "1", "0", ")">>],
      [name |-> <<"x", "2", "y", "3">>, key |-> NoKey, command |-> <<"g", "r", "i", "d", "(", "2", ",", "3", ")">>],
      [name |-> <<"x", "2", "y", "1">>, key |-> NoKey, command |-> <<"g", "r", "i", "d", "(", "2", ",", "1", ")">>],
      [name |-> <<"a", "b", "c", "d", "e", "f", "g">>, key |-> NoKey, command |-> <<"g", "(", ")">>],
      [name |-> <<"a", "b", "c", "d", "e", "f", "9">>, key |-> <<"9">>, command |-> <<"n", "i", "n", "e", "(", ")">>],
      [name |-> <<"a", "b", "c", "d", "e", "f", "g", "1">>, key |-> NoKey, command |-> <<"g", "1", "(", ")">>] }

RECURSIVE Mappings(_)
\* the mappings with n top-level keys, in file order
Mappings(n) ==
    IF n = 0 THEN {<<>>}
    ELSE LET shorter == Mappings(n - 1)
         IN  shorter \cup {Append(d, c) : d \in shorter,
                           c \in CommandPool}

\* yaml.safe_load gives a dict: a name occurs once
IsDict(d) == \A j, k \in 1..Len(d) : j # k => d[j].name # d[k].name

\* data[k]
lookup(d, k) == (CHOOSE e \in {d[j] : j \in 1..Len(d)} : e.name = k)

\* what one f.write call appends to commands.rs
Written(kind, name, shortcut, action) ==
    [kind |-> kind, name |-> name, shortcut |-> shortcut, action |-> action]

deps_vars == <<argv, dpkgStatus, error, shared_libs, all, lib, output, resolved, stdout,
               calls, exit_code, error_reads, version>>

InitGen ==
    /\ pc = "open"
    /\ data \in {d \in Mappings(MaxCommands) : IsDict(d)}
    /\ keys = <<>>
    /\ f = <<>>
    /\ argv = <<>>
    /\ dpkgStatus = [p \in Packages |-> NotInstalled]
    /\ error = FALSE
    /\ shared_libs = <<>>
    /\ i = 0
    /\ all = {}
    /\ lib = <<>>
    /\ output = <<>>
    /\ resolved = <<>>
    /\ stdout = <<>>
    /\ calls = <<>>
    /\ exit_code = Running
    /\ error_reads = 0
    /\ version = <<>>

\* the file is opened and the fixed head is written
gen_head ==
    /\ pc = "open"
    /\ f' = <<Written("head", <<>>, <<>>, <<>>)>>
    /\ pc' = "sorted"
    /\ UNCHANGED <<deps_vars, i, data, keys>>

\* for k in sorted(data, key=natural_sort_key): the order is fixed once
gen_sorted ==
    /\ pc = "sorted"
    /\ keys' = sorted([j \in 1..Len(data) |-> data[j].name])
    /\ i' = 1
    /\ pc' = "for"
    /\ UNCHANGED <<deps_vars, data, f>>

\* the body of the loop: one Command entry
gen_command ==
    /\ pc = "for"
    /\ i <= Len(keys)
    /\ LET k == keys[i]
           v == lookup(data, k)
           shortcut == IF v.key # NoKey THEN <<"S", "o", "m", "e", "(", "\"">> \o v.key \o <<"\"", ")">> ELSE <<"N", "o", "n", "e">>
       IN  f' = Append(f, Written("Command", k, shortcut, <<"|", "w", "|", " ", "w", ".">> \o v.command))
    /\ i' = i + 1
    /\ UNCHANGED <<deps_vars, pc, data, keys>>

\* after the loop the array is closed
gen_tail ==
    /\ pc = "for"
    /\ i > Len(keys)
    /\ f' = Append(f, Written("tail", <<>>, <<>>, <<>>))
    /\ exit_code' = 0
    /\ pc' = "exit"
    /\ UNCHANGED <<argv, dpkgStatus, error, shared_libs, all, lib, output, resolved, stdout,
                   calls, error_reads, version, i, data, keys>>

NextGen ==
    \/ gen_head
    \/ gen_sorted
    \/ gen_command
    \/ gen_tail

SpecGen == InitGen /\ [][NextGen]_vars

-----------------------------------------------------------------------------
(* Properties of deps.py *)

\* the positions on standard output of a comma-joined constraint line
ConstraintLines == {k \in 1..Len(stdout) : stdout[k].stmt = "constraints"}

\* the tokens of a printed line
TokensOf(text) == split(text, <<",", " ">>)

\* the package a constraint names
PackageOf(token) == first_word(token)

PackagesOf(tokens) == {PackageOf(t) : t \in tokens}

\* the longest prefix of v without '+' and '-'
CleanPrefix(v) ==
    SubSeq(v, 1, CHOOSE n \in 0..Len(v) :
                    /\ \A k \in 1..n : v[k] \notin {"+", "-"}
                    /\ n = Len(v) \/ v[n + 1] \in {"+", "-"})

\* the constraint of an installed package
ConstraintFor(p) == p \o <<" ", "(", ">", "=", " ">> \o CleanPrefix(dpkgStatus[p]) \o <<")">>

\* ldd returned at least one library
DynamicPath == Len(argv) = 2 /\ shared_libs # <<>> /\ pc \in {"for", "dpkg -S", "exit"}

\* the latest call of get_package_for_library has returned
Returned == pc \in {"for", "exit"} /\ Len(resolved) >= 1

Latest == resolved[Len(resolved)]

\* the version queries made by the latest call of get_package_for_library
LatestLookups ==
    LET asked == {k \in 1..Len(calls) : calls[k].cmd = "dpkg -S"}
        last == CHOOSE k \in asked : \A j \in asked : j <= k
    IN  SubSeq(calls, last + 1, Len(calls))

VersionLookups == {k \in 1..Len(calls) : calls[k].cmd = "dpkg -s"}

\* C1: on the dynamic-dependency path, once get_package_for_library has ended for
\* some library, at any position, with 0 or with 2 or more distinct owning packages,
\* the constraint line is never printed and the process exits with code 2.
C1_AmbiguousLibraryExits2 ==
    (DynamicPath /\ \E k \in 1..Len(resolved) :
                        Cardinality(PackagesOf(resolved[k].packages)) # 1)
    => /\ ConstraintLines = {}
       /\ pc = "exit" => exit_code = 2

\* C1 witness: the first library has two owners, the second exactly one, and the
\* process has ended.
C1_Witness ==
    /\ pc = "exit"
    /\ Len(resolved) = 2
    /\ Cardinality(PackagesOf(resolved[1].packages)) = 2
    /\ Cardinality(PackagesOf(resolved[2].packages)) = 1
    /\ dpkgStatus[<<"p", "a">>] # NotInstalled
    /\ dpkgStatus[<<"p", "b">>] # NotInstalled

FallbackLine ==
    <<"l", "i", "b", "c", "a", "i", "r", "o", "2", " ", "(", ">", "=", " ", "1", ".", "1", "8", ".", "0", ")", ",", " ", "l", "i", "b", "d", "a", "v", "1", "d", "7", " ", "(", ">", "=", " ", "1", ".", "4", ".", "1", ")", ",", " ", "l", "i", "b", "g", "d", "k", "-", "p", "i", "x", "b", "u", "f", "-", "2", ".", "0", "-", "0", " ", "(", ">", "=", " ", "2", ".", "4", "2", ".", "1", "0", ")", ",", " ", "l", "i", "b", "g", "t", "k", "-", "4", "-", "1", " ", "(", ">", "=", " ", "4", ".", "1", "4", ".", "5", ")", ",", " ", "l", "i", "b", "p", "a", "n", "g", "o", "-", "1", ".", "0", "-", "0", " ", "(", ">", "=", " ", "1", ".", "5", "2", ".", "1", ")">>

\* C2: when get_shared_libraries returns the empty list, ldd is the only subprocess
\* ever run, the error flag stays false, and the process ends with code 0 having
\* printed exactly the fixed fallback line.
C2_NoLibrariesPrintsFallback ==
    (Len(argv) = 2 /\ pc \in {"else", "exit"} /\ shared_libs = <<>>)
    => /\ error = FALSE
       /\ Len(calls) = 1 /\ calls[1].cmd = "ldd"
       /\ pc = "else" => stdout = <<>>
       /\ pc = "exit" => /\ exit_code = 0
                         /\ stdout = <<Printed("fallback", FallbackLine, {})>>

\* C2 witness: ldd succeeded without naming a library and the fallback was printed.
C2_Witness ==
    /\ pc = "exit"
    /\ Len(argv) = 2
    /\ shared_libs = <<>>
    /\ calls[1].status = 0
    /\ Len(stdout) = 1

\* every library resolved to exactly one owning package and every version lookup
\* succeeded
AllResolved ==
    /\ \A k \in 1..Len(resolved) : Cardinality(PackagesOf(resolved[k].packages)) = 1
    /\ \A k \in VersionLookups : calls[k].status = 0

\* C3: on the dynamic-dependency path, if every library resolved to exactly one
\* owning package and every version lookup succeeded, the process exits with code 0,
\* standard output is one line, and that line holds for each library exactly one
\* token 'package (>= version)' of its owner and no token of any other package.
C3_ResolvedLibrariesPrinted ==
    (DynamicPath /\ pc = "exit" /\ AllResolved)
    => /\ exit_code = 0
       /\ Len(stdout) = 1
       /\ stdout[1].stmt = "constraints"
       /\ LET tokens == TokensOf(stdout[1].text)
              owner(k) == CHOOSE p \in PackagesOf(resolved[k].packages) : TRUE
          IN  /\ \A k \in 1..Len(resolved) :
                    Cardinality({j \in 1..Len(tokens) : tokens[j] = ConstraintFor(owner(k))}) = 1
              /\ \A j \in 1..Len(tokens) :
                    \E k \in 1..Len(resolved) : tokens[j] = ConstraintFor(owner(k))

\* C3 witness: two libraries with different owners were resolved and printed.
C3_Witness ==
    /\ DynamicPath /\ pc = "exit" /\ AllResolved
    /\ Len(resolved) = 2
    /\ resolved[1].packages # resolved[2].packages
    /\ ConstraintLines # {}

\* C4: a printed constraint line has its tokens in strictly ascending lexicographic
\* order, none twice, and its token set is the union of the sets returned by
\* get_package_for_library over all libraries.
C4_LineSortedAndDeduplicated ==
    \A k \in ConstraintLines :
        LET tokens == TokensOf(stdout[k].text)
        IN  /\ \A j \in 1..(Len(tokens) - 1) : str_lt(tokens[j], tokens[j + 1])
            /\ \A j, n \in 1..Len(tokens) : j # n => tokens[j] # tokens[n]
            /\ {tokens[j] : j \in 1..Len(tokens)}
                   = UNION {resolved[n].packages : n \in 1..Len(resolved)}
            /\ Len(resolved) = Len(shared_libs)

\* C4 witness: a line of two tokens was printed whose order is not the order in
\* which the libraries contributed them.
C4_Witness ==
    \E k \in ConstraintLines :
        LET tokens == TokensOf(stdout[k].text)
        IN  /\ Len(tokens) = 2
            /\ Len(resolved) = 2
            /\ resolved[1].packages = {tokens[2]}
            /\ resolved[2].packages = {tokens[1]}

\* C5: with an argument count other than one, the usage message is the only thing
\* printed, the exit code is 1, no subprocess is run and the error flag stays false.
C5_UsageError ==
    Len(argv) # 2
    => /\ pc \in {"main", "exit"}
       /\ calls = <<>>
       /\ error = FALSE
       /\ pc = "main" => stdout = <<>> /\ exit_code = Running
       /\ pc = "exit" =>
             /\ exit_code = 1
             /\ stdout = <<Printed("usage", <<"U", "s", "a", "g", "e", ":", " ", "d", "e", "p", "s", ".", "p", "y", " ", "<", "p", "a", "t", "h", "_", "t", "o", "_", "e", "x", "e", "c", "u", "t", "a", "b", "l", "e", ">">>, {})>>

\* C5 witness: the script was started with two arguments and has exited.
C5_Witness == pc = "exit" /\ Len(argv) = 3 /\ exit_code = 1

\* the ignore list as the claim gives it
IgnoreList == {<<"i", "3", "8", "6">>, <<"l", "i", "b", "3", "2">>, <<"g", "o", "o", "g", "l", "e", "-", "c", "h", "r", "o", "m", "e">>, <<"m", "i", "c", "r", "o", "s", "o", "f", "t", "-", "e", "d", "g", "e">>,
               <<"c", "o", "d", "i", "u", "m">>, <<"w", "i", "n", "d", "s", "u", "r", "f">>}

\* of a line '<package>[:<arch>]: <filepath>'
FilePath(line) == SubSeq(line, find(line, <<":", " ">>, 1) + 2, Len(line))
Owner(line) == SubSeq(line, 1, find(line, <<":">>, 1) - 1)

PathIgnored(line) == \E w \in IgnoreList : Contains(FilePath(line), w)

\* the lines of the latest dpkg -S answer that name an owner of lib outside the
\* ignored directories
CountedLines ==
    SelectSeq(splitlines(output),
              LAMBDA line : ~PathIgnored(line) /\ endswith(line, <<"/">> \o lib))

Owners == {Owner(CountedLines[k]) : k \in 1..Len(CountedLines)}

C8_State ==
    /\ pc = "main" => error = FALSE
    /\ error_reads <= 1
    /\ error_reads = 1
          => /\ pc = "exit"
             /\ [k \in 1..Len(resolved) |-> resolved[k].lib] = shared_libs
    /\ (DynamicPath /\ pc = "exit")
          => /\ error_reads = 1
             /\ exit_code = IF error THEN 2 ELSE 0
    /\ DynamicPath
          => LET asked == SelectSeq(calls, LAMBDA c : c.cmd = "dpkg -S")
                 n == IF pc = "dpkg -S" THEN Len(resolved) + 1 ELSE Len(resolved)
             IN  /\ Len(asked) = n
                 /\ \A k \in 1..n : asked[k].arg = shared_libs[k]
    /\ (DynamicPath /\ Returned /\ output # CalledProcessError)
          => Len(LatestLookups) = Len(CountedLines)

\* C8: the error flag starts false and is never reset; main reads it once, after
\* get_package_for_library has run for every library in order, whatever failed
\* before; the exit code is 2 when it is set then and 0 otherwise.
C8_ErrorFlagAccumulates == []C8_State /\ [][error => error']_vars

\* C8 witness: the first of two libraries failed, the second was still looked up
\* with its version, and the process exited with code 2.
C8_Witness ==
    /\ pc = "exit"
    /\ Len(resolved) = 2
    /\ resolved[1].packages = {}
    /\ Cardinality(resolved[2].packages) = 1
    /\ Len(LatestLookups) = 1
    /\ LatestLookups[1].status = 0
    /\ exit_code = 2

\* what C9 says of failed lookups themselves
C9_FailuresFlagged ==
    /\ (Returned /\ output = CalledProcessError)
          => /\ Latest.packages = {}
             /\ error
             /\ stdout[Len(stdout)]
                    = Printed("library_not_found", lib \o <<" ", "-", ">", " ", "P", "a", "c", "k", "a", "g", "e", " ", "n", "o", "t", " ", "f", "o", "u", "n", "d">>, {})
    /\ \A k \in VersionLookups :
          calls[k].status # 0
             => /\ error
                /\ \E n \in 1..Len(resolved) :
                       (calls[k].arg \o <<" ", "(", ">", "=", " ", "0", ".", "0", ".", "0", ")">>) \in resolved[n].packages
                /\ \E n \in 1..Len(stdout) :
                       stdout[n] = Printed("version_not_found",
                                           calls[k].arg \o <<" ", "-", ">", " ", "P", "a", "c", "k", "a", "g", "e", " ", "n", "o", "t", " ", "f", "o", "u", "n", "d">>, {})
    /\ Cardinality({n \in 1..Len(stdout) : stdout[n].stmt = "version_not_found"})
          = Cardinality({k \in VersionLookups : calls[k].status # 0})

\* C9 as stated: failed lookups are flagged and replaced by defaults, and no token
\* with the version 0.0.0 is in a printed constraint line.
C9_NoSentinelVersionPrinted ==
    /\ C9_FailuresFlagged
    /\ \A k \in ConstraintLines :
          LET tokens == TokensOf(stdout[k].text)
          IN  \A j \in 1..Len(tokens) : ~endswith(tokens[j], <<" ", "(", ">", "=", " ", "0", ".", "0", ".", "0", ")">>)

\* C9 amended: failed lookups are flagged and replaced by defaults, and no token of
\* a package whose version lookup failed is in a printed constraint line; a printed
\* token with the version 0.0.0 is that of a package installed with that version.
C9_NoFailedLookupPrinted ==
    /\ C9_FailuresFlagged
    /\ \A k \in ConstraintLines :
          LET tokens == TokensOf(stdout[k].text)
          IN  /\ \A n \in VersionLookups : calls[n].status = 0
              /\ \A j \in 1..Len(tokens) :
                    /\ dpkgStatus[PackageOf(tokens[j])] # NotInstalled
                    /\ tokens[j] = ConstraintFor(PackageOf(tokens[j]))

\* C9 witness: a version lookup failed, the candidate with 0.0.0 was returned, and
\* the process exited with code 2 without a constraint line.
C9_Witness ==
    /\ pc = "exit"
    /\ exit_code = 2
    /\ ConstraintLines = {}
    /\ \E k \in VersionLookups : calls[k].status # 0
    /\ \E n \in 1..Len(resolved) : <<"p", "a", " ", "(", ">", "=", " ", "0", ".", "0", ".", "0", ")">> \in resolved[n].packages

-----------------------------------------------------------------------------
(* Properties of get_package_version *)

\* C7: get_package_version returns the installed version cut before its first '+'
\* or '-': a prefix of the version, without '+' and '-', and the longest such.
C7_VersionTruncated ==
    /\ strip(grep_pipeline(<<"P", "a", "c", "k", "a", "g", "e", ":", " ", "l", "i", "b", "r", "s", "v", "g", "2", "-", "2", "\n", "V", "e", "r", "s", "i", "o", "n", ":", " ", "2", ".", "4", "0", ".", "0", "-", "3", "u", "b", "u", "n", "t", "u", "1", "\n">>).stdout)
          = <<"2", ".", "4", "0", ".", "0">>
    /\ (pc = "returned" /\ dpkgStatus[calls[1].arg] # NotInstalled)
          => LET v == dpkgStatus[calls[1].arg]
             IN  /\ Len(version) <= Len(v)
                 /\ version = SubSeq(v, 1, Len(version))
                 /\ \A k \in 1..Len(version) : version[k] \notin {"+", "-"}
                 /\ Len(version) = Len(v) \/ v[Len(version) + 1] \in {"+", "-"}
                 /\ error = FALSE
                 /\ stdout = <<>>

\* C7 witness: a version with a suffix was cut.
C7_Witness ==
    /\ pc = "returned"
    /\ calls[1].arg = <<"p", "a">>
    /\ dpkgStatus[<<"p", "a">>] = <<"0", ".", "0", "+">>
    /\ version = <<"0", ".", "0">>

-----------------------------------------------------------------------------
(* Properties of gen_commands.py *)

Digits == {"0", "1", "2", "3", "4", "5", "6", "7", "8", "9"}

\* the name with all digit runs removed
DigitFree(s) == SelectSeq(s, LAMBDA c : c \notin Digits)

\* the first digit run read as an integer, -1 without digits
FirstNumber(s) ==
    LET at == {k \in 1..Len(s) : s[k] \in Digits}
    IN  IF at = {} THEN 0 - 1
        ELSE LET a == CHOOSE k \in at : \A j \in at : k <= j
                 b == CHOOSE k \in a..Len(s) :
                         /\ \A j \in a..k : j \in at
                         /\ (k + 1) \notin at
             IN  int(SubSeq(s, a, b))

\* the order of claim C10: a precedes b strictly
Precedes(a, b) ==
    LET ta == DigitFree(a)
        tb == DigitFree(b)
        pa == SubSeq(ta, 1, IF Len(ta) < 6 THEN Len(ta) ELSE 6)
        pb == SubSeq(tb, 1, IF Len(tb) < 6 THEN Len(tb) ELSE 6)
        ra == SubSeq(ta, Len(pa) + 1, Len(ta))
        rb == SubSeq(tb, Len(pb) + 1, Len(tb))
    IN  \/ str_lt(pa, pb)
        \/ pa = pb /\ FirstNumber(a) < FirstNumber(b)
        \/ pa = pb /\ FirstNumber(a) = FirstNumber(b) /\ str_lt(ra, rb)

Commands == SelectSeq(f, LAMBDA w : w.kind = "Command")

\* C10: commands.rs gets one Command entry per top-level key of commands.yaml, in
\* non-decreasing order of: the first six characters of the digit-free name, then
\* the first digit run as an integer (-1 without digits), then the rest of the
\* digit-free name; later digit runs do not matter.
C10_EntriesInNaturalOrder ==
    pc = "exit"
    => /\ Len(Commands) = Len(data)
       /\ \A k \in 1..Len(data) :
             Cardinality({j \in 1..Len(Commands) : Commands[j].name = data[k].name}) = 1
       /\ \A j \in 1..(Len(Commands) - 1) : ~Precedes(Commands[j + 1].name, Commands[j].name)
       /\ \A j, k \in 1..Len(Commands) :
             /\ (Commands[j].name = <<"x", "2">> /\ Commands[k].name = <<"x", "1", "0">>) => j < k
             /\ (Commands[j].name = <<"x">> /\ Commands[k].name = <<"x", "2">>) => j < k
             /\ (Commands[j].name = <<"a", "b", "c", "d", "e", "f", "g", "1">> /\ Commands[k].name = <<"a", "b", "c", "d", "e", "f", "9">>) => j < k
       /\ \A j, k \in 1..Len(data) :
             (j < k /\ {data[j].name, data[k].name} = {<<"x", "2", "y", "3">>, <<"x", "2", "y", "1">>})
                => \E m, n \in 1..Len(Commands) :
                       m < n /\ Commands[m].name = data[j].name /\ Commands[n].name = data[k].name
       /\ f[1].kind = "head" /\ f[Len(f)].kind = "tail"
       /\ Len(f) = Len(data) + 2

\* C10 witness: x10 was defined before x2 and written after it.
C10_Witness ==
    /\ pc = "exit"
    /\ Len(data) = 2
    /\ data[1].name = <<"x", "1", "0">>
    /\ data[2].name = <<"x", "2">>
    /\ Len(Commands) = 2
    /\ Commands[1].name = <<"x", "2">>
    /\ Commands[2].name = <<"x", "1", "0">>

====
